---- MODULE Spec2Model ----
(***************************************************************************)
(* Model of the three CRUD services of the repository:                     *)
(*   "todo" : src/MongoDB  (document store, routes/route.py)               *)
(*   "sql"  : src/SQL      (relational store, main.py)                     *)
(*   "mem"  : src/basics.py (in-memory list BOOKS)                         *)
(* A behaviour runs one of the three services (variable variant).          *)
(*                                                                         *)
(* The todo routes are coroutines that call the storage driver without     *)
(* awaiting: in Spec, SpecTodo and SpecStats a todo action is one whole    *)
(* request handler. SpecTodoSteps serves todo requests that several worker *)
(* processes handle at the same time: every action is one call of the      *)
(* collection.                                                             *)
(* The book routes are plain functions, which the framework runs in the    *)
(* threads of a pool: in Spec, SpecBooks and SpecMemSteps every book       *)
(* action is one step of a handler (one statement sent to the engine, one  *)
(* access to the list BOOKS), and the steps of the requests of a batch     *)
(* interleave. SpecSearch answers searches, one statement each.            *)
(*                                                                         *)
(* Optional values (Python None) are encoded as sequences: <<>> is None,   *)
(* <<v>> is the value v.                                                   *)
(***************************************************************************)
EXTENDS Integers, Sequences, FiniteSets, TLC

VARIABLES
    variant,   \* which service runs: "todo", "sql" or "mem"
    db,        \* MongoDB.db: "None" until connect() succeeded
    todos,     \* the todo collection: ObjectId -> document
    nextOid,   \* the next ObjectId insert_one generates
    now,       \* the last reading of the clock
    books,     \* the books table: rowid -> row
    BOOKS,     \* basics.py: the list BOOKS
    nextUuid,  \* the next value uuid4() returns
    issued,    \* history: every id a create has assigned so far
    expect,    \* history: Book id -> the fields given at create as modified
               \* by the successful updates since (ids not deleted since)
    deleted,   \* history: the Book ids a delete or delete-all has removed
    inflight,  \* the requests served step by step: each one's handler,
               \* arguments, position, local variables and response
    resp       \* the last request and its response

vars == <<variant, db, todos, nextOid, now, books, BOOKS, nextUuid, issued,
          expect, deleted, inflight, resp>>
todoVars == <<db, todos, nextOid, now>>
bookVars == <<books, BOOKS, nextUuid>>
bookHist == <<expect, deleted>>

\* ---------------------------------------------------------------- bounds
\* number of ObjectIds the document store ever hands out
MaxOid == 2
\* last instant of the clock (datetime.utcnow() readings are 0..MaxClock)
MaxClock == 1
\* number of rows of the books table when a batch of requests arrives
MaxRowId == 2
\* number of books of the list BOOKS when a batch of requests arrives
MaxUuid == 2

\* ---------------------------------------------------------------- helpers
None == <<>>
Some(v) == <<v>>
\* a field the request body does not mention
Unset == <<0, 0>>
IsNone(o) == o = <<>>
Val(o) == o[1]

\* ---------------------------------------------------------------- todo schema
Names == {"a", "b"}
Descs == {"x"}
\* Field(..., min_length=1, max_length=100)
NameMinLen == 1
NameMaxLen == 100
NameValid(s) == Len(s) >= NameMinLen /\ Len(s) <= NameMaxLen
\* Field(..., min_length=1, max_length=500)
DescMinLen == 1
DescMaxLen == 500
DescValid(s) == Len(s) >= DescMinLen /\ Len(s) <= DescMaxLen

\* request bodies offered to POST /todos/ ("" is too short a name)
TodoCreateInputs == [name : Names \cup {""}, description : Descs, complete : BOOLEAN]
TodoCreateValid(t) == NameValid(t.name) /\ DescValid(t.description)

\* request bodies offered to PUT /todos/{id}: each field None or a value
\* (TodoUpdate.model_dump() gives None for a field left out and for null)
TodoUpdateInputs ==
    [name : {None} \cup {Some(n) : n \in Names},
     description : {None} \cup {Some(d) : d \in Descs},
     complete : {None, Some(TRUE), Some(FALSE)}]
        \cup {[name |-> Some(""), description |-> None, complete |-> None]}
TodoUpdateValid(t) ==
    /\ (IsNone(t.name) \/ NameValid(Val(t.name)))
    /\ (IsNone(t.description) \/ DescValid(Val(t.description)))

\* ---------------------------------------------------------------- ObjectId
\* An id string of the path is abstracted to its length, whether all its
\* characters are hexadecimal digits, and the number n it spells.
\* ObjectId(id) takes a string of 24 hexadecimal digits
ObjectIdLen == 24
OidStr(n) == [len |-> ObjectIdLen, hex |-> TRUE, n |-> n]
ObjectIdValid(id) == id.len = ObjectIdLen /\ id.hex
TodoIdInputs ==
    {OidStr(n) : n \in 1..MaxOid}
        \cup {[len |-> ObjectIdLen - 1, hex |-> TRUE, n |-> 1],
              [len |-> ObjectIdLen, hex |-> FALSE, n |-> 1]}

\* ---------------------------------------------------------------- responses
\* op and id: the request; applied: the fields of an update's update_data;
\* was: the complete flag toggle_todo read; status and body: the response;
\* calls: the round trips to the storage server the handler made
Answer(op, id, applied, was, status, calls, body) ==
    [op |-> op, id |-> id, applied |-> applied, was |-> was, status |-> status,
     calls |-> calls, body |-> body]
Reply(op, id, applied, status, calls, body) ==
    Answer(op, id, applied, None, status, calls, body)
Resp(op, status, calls, body) == Reply(op, None, {}, status, calls, body)
RespId(op, id, status, calls, body) == Reply(op, Some(id), {}, status, calls, body)

\* MongoDB.get_collection: connects (and pings the server) when no database
\* handle exists yet; calls counts the round trips to the server. The server
\* is taken to be reachable: connect() succeeds.
get_collection(d) ==
    IF d = "None" THEN [db |-> "connected", calls |-> 1]
                  ELSE [db |-> d, calls |-> 0]

individual_serial(oid, todo) ==
    [id |-> OidStr(oid),
     name |-> todo.name,
     description |-> todo.description,
     complete |-> todo.complete,
     created_at |-> todo.created_at,
     updated_at |-> todo.updated_at]

\* ---------------------------------------------------------------- todo handlers
\* lifespan(): MongoDB.connect() at startup. The routes do not depend on it:
\* served without the startup hook they find MongoDB.db None and
\* get_collection connects on the first request.
lifespan ==
    /\ variant = "todo"
    /\ db = "None"
    /\ db' = "connected"
    /\ UNCHANGED <<variant, inflight, todos, nextOid, now, bookVars, bookHist, issued, resp>>

\* time passes
Tick ==
    /\ variant = "todo"
    /\ now < MaxClock
    /\ now' = now + 1
    /\ UNCHANGED <<variant, inflight, db, todos, nextOid, bookVars, bookHist, issued, resp>>

get_todo(id) ==
    /\ variant = "todo"
    /\ LET c == get_collection(db) IN
       /\ db' = c.db
       /\ resp' = IF ~ObjectIdValid(id) THEN RespId("get_todo", id, 400, c.calls, <<>>)
                  ELSE IF id.n \notin DOMAIN todos
                       THEN RespId("get_todo", id, 404, c.calls + 1, <<>>)
                  ELSE RespId("get_todo", id, 200, c.calls + 1,
                            <<individual_serial(id.n, todos[id.n])>>)
    /\ UNCHANGED <<variant, inflight, todos, nextOid, now, bookVars, bookHist, issued>>

\* a set of keys as the sequence the store returns them in: the order of
\* insertion, which is the order of the keys
RECURSIVE IdsInOrder(_)
IdsInOrder(S) ==
    IF S = {} THEN <<>>
    ELSE LET m == CHOOSE x \in S : \A y \in S : x <= y
         IN  <<m>> \o IdsInOrder(S \ {m})

\* cursor.skip(skip).limit(limit) for skip >= 0, limit >= 1
Page(seq, skip, limit) ==
    SubSeq(seq, skip + 1, IF skip + limit < Len(seq) THEN skip + limit ELSE Len(seq))

\* Query(0, ge=0) and Query(100, ge=1, le=1000)
MaxLimit == 1000
SkipValid(skip) == skip >= 0
LimitValid(limit) == limit >= 1 /\ limit <= MaxLimit
SkipInputs == {-1, 0, 1}
LimitInputs == {0, 1, MaxLimit, MaxLimit + 1}
CompleteInputs == {None, Some(TRUE), Some(FALSE)}

\* list_serial(todos) over collection.find(query).skip(skip).limit(limit);
\* the query parameters are logged as the request's id
get_todos(skip, limit, complete) ==
    /\ variant = "todo"
    /\ LET q == [skip |-> skip, limit |-> limit, complete |-> complete] IN
       IF ~(SkipValid(skip) /\ LimitValid(limit))
       THEN /\ resp' = RespId("get_todos", q, 422, 0, <<>>)
            /\ UNCHANGED db
       ELSE LET c == get_collection(db)
                found == {i \in DOMAIN todos :
                            IsNone(complete) \/ todos[i].complete = Val(complete)}
                page == Page(IdsInOrder(found), skip, limit)
            IN  /\ db' = c.db
                /\ resp' = RespId("get_todos", q, 200, c.calls + 1,
                                  <<[k \in DOMAIN page |->
                                        individual_serial(page[k], todos[page[k]])]>>)
    /\ UNCHANGED <<variant, inflight, todos, nextOid, now, bookVars, bookHist, issued>>

\* mutant of NewTodoDoc: the two clock readings swapped
NewTodoDocSwapped(t, t1, t2) ==
    [name |-> t.name, description |-> t.description, complete |-> t.complete,
     created_at |-> t2, updated_at |-> t1]

\* todo.model_dump() plus the two timestamps (route.py 80-82): t1 is the first
\* reading of the clock, t2 the second
NewTodoDoc(t, t1, t2) ==
    [name |-> t.name, description |-> t.description, complete |-> t.complete,
     created_at |-> t1, updated_at |-> t2]

create_todo(t, t2) ==
    /\ variant = "todo"
    /\ IF ~TodoCreateValid(t)
       THEN /\ resp' = Resp("create_todo", 422, 0, <<>>)
            /\ UNCHANGED <<db, todos, nextOid, now, issued>>
       ELSE /\ nextOid <= MaxOid
            /\ t2 >= now
            /\ LET c == get_collection(db)
                   doc == NewTodoDoc(t, now, t2)
               IN  /\ db' = c.db
                   /\ todos' = (nextOid :> doc) @@ todos
                   /\ resp' = Resp("create_todo", 201, c.calls + 2,
                                   <<individual_serial(nextOid, doc)>>)
            /\ nextOid' = nextOid + 1
            /\ issued' = issued \cup {nextOid}
            /\ now' = t2
    /\ UNCHANGED <<variant, inflight, bookVars, bookHist>>

\* update_data = {k: v for k, v in todo.model_dump().items() if v is not None}
UpdateData(p) == {f \in DOMAIN p : ~IsNone(p[f])}

\* if not update_data
NoValidFields(p) == UpdateData(p) = {}

\* update_one({"_id": ...}, {"$set": update_data}) with updated_at = t added
SetUpdateData(doc, p, t) ==
    [f \in DOMAIN doc |->
        IF f \in UpdateData(p) THEN Val(p[f])
        ELSE IF f = "updated_at" THEN t
        ELSE doc[f]]

update_todo(id, p) ==
    /\ variant = "todo"
    /\ IF ~TodoUpdateValid(p)
       THEN /\ resp' = RespId("update_todo", id, 422, 0, <<>>)
            /\ UNCHANGED <<db, todos>>
       ELSE LET c == get_collection(db) IN
            /\ db' = c.db
            /\ IF ~ObjectIdValid(id)
               THEN /\ resp' = Reply("update_todo", Some(id), UpdateData(p),
                                       400, c.calls, <<>>)
                    /\ UNCHANGED todos
               ELSE IF id.n \notin DOMAIN todos
               THEN /\ resp' = Reply("update_todo", Some(id), UpdateData(p),
                                       404, c.calls + 1, <<>>)
                    /\ UNCHANGED todos
               ELSE IF NoValidFields(p)
               THEN /\ resp' = Reply("update_todo", Some(id), UpdateData(p),
                                       400, c.calls + 1, <<>>)
                    /\ UNCHANGED todos
               ELSE LET doc == SetUpdateData(todos[id.n], p, now) IN
                    /\ todos' = [todos EXCEPT ![id.n] = doc]
                    /\ resp' = Reply("update_todo", Some(id), UpdateData(p), 200, c.calls + 3,
                                    <<individual_serial(id.n, doc)>>)
    /\ UNCHANGED <<variant, inflight, nextOid, now, bookVars, bookHist, issued>>

\* mutant of ToggleDoc: marks the todo complete instead of negating
ToggleDocSetsTrue(doc, t) ==
    [doc EXCEPT !.complete = TRUE, !.updated_at = t]

\* {"$set": {"complete": new_status, "updated_at": datetime.utcnow()}}
ToggleDoc(doc, t) ==
    [doc EXCEPT !.complete = ~doc.complete, !.updated_at = t]

toggle_todo(id) ==
    /\ variant = "todo"
    /\ LET c == get_collection(db) IN
       /\ db' = c.db
       /\ IF ~ObjectIdValid(id)
          THEN /\ resp' = RespId("toggle_todo", id, 400, c.calls, <<>>)
               /\ UNCHANGED todos
          ELSE IF id.n \notin DOMAIN todos
          THEN /\ resp' = RespId("toggle_todo", id, 404, c.calls + 1, <<>>)
               /\ UNCHANGED todos
          ELSE LET doc == ToggleDoc(todos[id.n], now) IN
               /\ todos' = [todos EXCEPT ![id.n] = doc]
               /\ resp' = Answer("toggle_todo", Some(id), {}, Some(todos[id.n].complete),
                                  200, c.calls + 3,
                               <<individual_serial(id.n, doc)>>)
    /\ UNCHANGED <<variant, inflight, nextOid, now, bookVars, bookHist, issued>>

\* collection.delete_one({"_id": object_id}): the collection without that document
DeleteOne(coll, oid) == [k \in DOMAIN coll \ {oid} |-> coll[k]]

delete_todo(id) ==
    /\ variant = "todo"
    /\ LET c == get_collection(db) IN
       /\ db' = c.db
       /\ IF ~ObjectIdValid(id)
          THEN /\ resp' = RespId("delete_todo", id, 400, c.calls, <<>>)
               /\ UNCHANGED todos
          ELSE IF id.n \notin DOMAIN todos
          THEN /\ resp' = RespId("delete_todo", id, 404, c.calls + 1, <<>>)
               /\ UNCHANGED todos
          ELSE /\ todos' = DeleteOne(todos, id.n)
               /\ resp' = RespId("delete_todo", id, 204, c.calls + 1, <<>>)
    /\ UNCHANGED <<variant, inflight, nextOid, now, bookVars, bookHist, issued>>

\* mutant of CompletedIds: the filter matches every document
AllIds(coll) == DOMAIN coll

\* the documents delete_many({"complete": True}) matches
CompletedIds(coll) == {k \in DOMAIN coll : coll[k].complete = TRUE}

delete_completed_todos ==
    /\ variant = "todo"
    /\ LET c == get_collection(db)
           gone == CompletedIds(todos)
       IN  /\ db' = c.db
           /\ todos' = [k \in DOMAIN todos \ gone |-> todos[k]]
           /\ resp' = Resp("delete_completed_todos", 200, c.calls + 1,
                           <<[deleted_count |-> Cardinality(gone)]>>)
    /\ UNCHANGED <<variant, inflight, nextOid, now, bookVars, bookHist, issued>>

\* mutant of Round2: the rate cut to two decimals instead of rounded
Truncate2(completed, total) == (completed * 10000) \div total

\* ---- IEEE 754 double arithmetic on positive numbers. A double is
\* [m, e]: m its 53 significand bits, lowest bit first, e the exponent of the
\* lowest bit; its value is m * 2^e. Every operation rounds the exact result
\* to 53 bits, a tie going to the even significand.
SignificandBits == 53

Reverse(s) == [i \in 1..Len(s) |-> s[Len(s) + 1 - i]]

\* the bits (lowest first) plus one
RECURSIVE Inc(_)
Inc(s) ==
    IF s = <<>> THEN <<1>>
    ELSE IF Head(s) = 0 THEN <<1>> \o Tail(s)
    ELSE <<0>> \o Inc(Tail(s))

\* the bits (lowest first) times the small number m, plus carry
RECURSIVE MulSmall(_, _, _)
MulSmall(s, m, carry) ==
    IF s = <<>>
    THEN IF carry = 0 THEN <<>> ELSE <<carry % 2>> \o MulSmall(<<>>, m, carry \div 2)
    ELSE LET v == Head(s) * m + carry
         IN  <<v % 2>> \o MulSmall(Tail(s), m, v \div 2)

RECURSIVE ToInt(_)
ToInt(s) == IF s = <<>> THEN 0 ELSE Head(s) + 2 * ToInt(Tail(s))

\* the bits divided by 2^d, rounded to the nearest integer, a tie to the even
RoundShift(s, d) ==
    IF d <= 0 THEN s
    ELSE LET at(i) == IF i <= Len(s) THEN s[i] ELSE 0
             kept == SubSeq(s, d + 1, Len(s))
             sticky == \E i \in 1..(d - 1) : at(i) = 1
         IN  IF at(d) = 1 /\ (sticky \/ at(d + 1) = 1) THEN Inc(kept) ELSE kept

\* the exact number s * 2^e rounded to a double
Round53(s, e) ==
    LET d == Len(s) - SignificandBits
        r == RoundShift(s, d)
    IN  IF Len(r) > SignificandBits
        THEN [m |-> Tail(r), e |-> e + d + 1]
        ELSE [m |-> r, e |-> e + d]

\* n bits of the fraction r / t (0 <= r < t), highest first, followed by
\* what is left of r
RECURSIVE FracBits(_, _, _)
FracBits(r, t, n) ==
    IF n = 0 THEN <<r>>
    ELSE IF 2 * r >= t THEN <<1>> \o FracBits(2 * r - t, t, n - 1)
    ELSE <<0>> \o FracBits(2 * r, t, n - 1)

\* the number of doublings of a that reach b
RECURSIVE Doublings(_, _)
Doublings(a, b) == IF a >= b THEN 0 ELSE 1 + Doublings(2 * a, b)
RECURSIVE Pow2(_)
Pow2(k) == IF k = 0 THEN 1 ELSE 2 * Pow2(k - 1)

\* c / t for integers c, t > 0 (Python's true division): c/t = (n/u) * 2^x
\* with 1 <= n/u < 2, the quotient cut after 53 bits and rounded by the rest
FloatDiv(c, t) ==
    LET up == Doublings(c, t)
        down == IF c >= t THEN Doublings(2 * t, c + 1) ELSE 0
        n == c * Pow2(up)
        u == t * Pow2(down)
        f == FracBits(n - u, u, SignificandBits - 1)
        rem == f[SignificandBits]
        bits == Reverse(<<1>> \o SubSeq(f, 1, SignificandBits - 1))
        more == 2 * rem > u \/ (2 * rem = u /\ Head(bits) = 1)
        e == down - up - (SignificandBits - 1)
    IN  IF more THEN Round53(Inc(bits), e) ELSE [m |-> bits, e |-> e]

\* x * 100 for a double x
FloatMul100(x) == Round53(MulSmall(x.m, 100, 0), x.e)

\* round(x, 2) in hundredths: the exact value of the double x times 100,
\* rounded to the nearest integer, a tie to the even (the correctly rounded
\* two-decimal representation of x)
RoundHundredths(x) == ToInt(RoundShift(MulSmall(x.m, 100, 0), -x.e))

\* round(completed / total * 100, 2), in hundredths, for total > 0
Round2(completed, total) ==
    IF completed = 0 THEN 0
    ELSE RoundHundredths(FloatMul100(FloatDiv(completed, total)))

\* the body of get_todo_stats from its two counts; completion_rate in hundredths
StatsBody(total, completed) ==
    [total |-> total,
     completed |-> completed,
     pending |-> total - completed,
     completion_rate |-> IF total > 0 THEN Round2(completed, total) ELSE 0]

get_todo_stats ==
    /\ variant = "todo"
    /\ LET c == get_collection(db) IN
       /\ db' = c.db
       /\ resp' = Resp("get_todo_stats", 200, c.calls + 2,
                       <<StatsBody(Cardinality(DOMAIN todos),
                                   Cardinality(CompletedIds(todos)))>>)
    /\ UNCHANGED <<variant, inflight, todos, nextOid, now, bookVars, bookHist, issued>>

\* ---------------------------------------------------------------- book schema
BookFields == {"title", "author", "description", "rating"}
\* Field(min_length=1, max_length=200)
TitleMinLen == 1
TitleMaxLen == 200
\* Field(min_length=1, max_length=100)
AuthorMinLen == 1
AuthorMaxLen == 100
\* Field(ge=0, le=100)
RatingMin == 0
RatingMax == 100
\* Field(max_length=500)
BookDescMaxLen == 500
\* an out-of-range rating offered to the schemas
BadRating == RatingMax + 1

LenIn(o, lo, hi) == Len(Val(o)) >= lo /\ Len(Val(o)) <= hi
RatingInRange(o) == Val(o) >= RatingMin /\ Val(o) <= RatingMax

\* book_data.model_dump(exclude_unset=True): the fields the body mentions
ModelDumpExcludeUnset(p) == {f \in DOMAIN p : p[f] # Unset}

\* ---------------------------------------------------------------- SQL variant
\* schemas.py BookCreate: title and author required, description optional
\* (max_length only), rating an int in range, 0 when left out
SqlBookCreateValid(b) ==
    /\ b.title # Unset /\ ~IsNone(b.title) /\ LenIn(b.title, TitleMinLen, TitleMaxLen)
    /\ b.author # Unset /\ ~IsNone(b.author) /\ LenIn(b.author, AuthorMinLen, AuthorMaxLen)
    /\ (b.description = Unset \/ IsNone(b.description) \/ LenIn(b.description, 0, BookDescMaxLen))
    /\ (b.rating = Unset \/ (~IsNone(b.rating) /\ RatingInRange(b.rating)))

\* schemas.py BookUpdate: every field optional, null allowed
SqlBookUpdateValid(p) ==
    /\ (p.title = Unset \/ IsNone(p.title) \/ LenIn(p.title, TitleMinLen, TitleMaxLen))
    /\ (p.author = Unset \/ IsNone(p.author) \/ LenIn(p.author, AuthorMinLen, AuthorMaxLen))
    /\ (p.description = Unset \/ IsNone(p.description) \/ LenIn(p.description, 0, BookDescMaxLen))
    /\ (p.rating = Unset \/ IsNone(p.rating) \/ RatingInRange(p.rating))

\* Book(title=..., author=..., description=..., rating=...) from a BookCreate
SqlNewRow(b) ==
    [title |-> b.title,
     author |-> b.author,
     description |-> IF b.description = Unset THEN None ELSE b.description,
     rating |-> IF b.rating = Unset THEN Some(0) ELSE b.rating]

\* models.py: nullable=False columns and the CheckConstraint valid_rating,
\* enforced by the engine at commit
SqlConstraintsOk(row) ==
    /\ ~IsNone(row.title)
    /\ ~IsNone(row.author)
    /\ ~IsNone(row.rating)
    /\ RatingInRange(row.rating)

SetMax(S) == CHOOSE m \in S : \A x \in S : x <= m

\* id = Column(Integer, primary_key=True, autoincrement=True) on SQLite: an
\* INTEGER PRIMARY KEY without the AUTOINCREMENT keyword, so a new row gets
\* the largest rowid of the table plus one
NextRowId(table) == IF DOMAIN table = {} THEN 1 ELSE SetMax(DOMAIN table) + 1

\* BookResponse built from a row
BookResponse(id, row) ==
    [id |-> id, title |-> row.title, author |-> row.author,
     description |-> row.description, rating |-> row.rating]

\* for field, value in update_data.items(): setattr(book, field, value)
SetAttrs(row, p) ==
    [f \in DOMAIN row |-> IF f \in ModelDumpExcludeUnset(p) THEN p[f] ELSE row[f]]

\* ---- history of the book requests (no handler reads it)
\* the fields a create request gives: a field the body leaves out has the
\* default the schema declares
GivenAtCreate(b) ==
    [f \in BookFields |->
        IF b[f] # Unset THEN b[f]
        ELSE IF f = "rating" THEN Some(0) ELSE None]
\* the fields after an update request: those the body mentions replaced
Modified(fields, p) ==
    [f \in BookFields |-> IF p[f] # Unset THEN p[f] ELSE fields[f]]
\* the history when a create, an update, a delete or a delete-all takes effect
HistCreated(id, b) ==
    /\ expect' = (id :> GivenAtCreate(b)) @@ expect
    /\ deleted' = deleted
HistUpdated(id, p) ==
    /\ expect' = IF id \in DOMAIN expect
                 THEN [expect EXCEPT ![id] = Modified(@, p)]
                 ELSE expect
    /\ deleted' = deleted
HistDeleted(id) ==
    /\ expect' = [k \in DOMAIN expect \ {id} |-> expect[k]]
    /\ deleted' = deleted \cup {id}
HistDeletedAll ==
    /\ expect' = <<>>
    /\ deleted' = deleted \cup DOMAIN expect

\* SQLite's OFFSET skip LIMIT limit: a negative offset counts as 0, a negative
\* limit as no limit
SqlPage(seq, skip, limit) ==
    LET from == IF skip < 0 THEN 0 ELSE skip
        upto == IF limit < 0 \/ from + limit > Len(seq) THEN Len(seq) ELSE from + limit
    IN  SubSeq(seq, from + 1, upto)
\* ---- search: texts are sequences of characters
\* SQLite's lower(): the 26 ASCII capitals become small letters, every other
\* character stays
UpperLetters ==
    <<"A", "B", "C", "D", "E", "F", "G", "H", "I", "J", "K", "L", "M",
      "N", "O", "P", "Q", "R", "S", "T", "U", "V", "W", "X", "Y", "Z">>
LowerLetters ==
    <<"a", "b", "c", "d", "e", "f", "g", "h", "i", "j", "k", "l", "m",
      "n", "o", "p", "q", "r", "s", "t", "u", "v", "w", "x", "y", "z">>
LowerChar(c) ==
    IF \E i \in DOMAIN UpperLetters : UpperLetters[i] = c
    THEN LowerLetters[CHOOSE i \in DOMAIN UpperLetters : UpperLetters[i] = c]
    ELSE c
Lower(str) == [i \in 1..Len(str) |-> LowerChar(str[i])]

\* SQLite's  str LIKE pat : % matches any run of characters, _ any one
\* character, every other character itself or the same ASCII letter in the
\* other case; no escape character is set
RECURSIVE Like(_, _)
Like(str, pat) ==
    IF pat = <<>> THEN str = <<>>
    ELSE IF Head(pat) = "%"
         THEN Like(str, Tail(pat)) \/ (str # <<>> /\ Like(Tail(str), pat))
    ELSE /\ str # <<>>
         /\ (Head(pat) = "_" \/ LowerChar(Head(pat)) = LowerChar(Head(str)))
         /\ Like(Tail(str), Tail(pat))

\* column.ilike(f"%{text}%"): lower(column) LIKE lower('%text%')
ILike(column, text) ==
    Like(Lower(Val(column)), Lower(<<"%">> \o text \o <<"%">>))

\* "if title:" is false for None and for the empty string
Truthy(o) == ~IsNone(o) /\ Val(o) # <<>>

\* the ids of the rows the query of search_books selects
SearchFilter(table, title, author, min_rating) ==
    {id \in DOMAIN table :
        /\ Truthy(title) => ILike(table[id].title, Val(title))
        /\ Truthy(author) => ILike(table[id].author, Val(author))
        /\ ~IsNone(min_rating) => Val(table[id].rating) >= Val(min_rating)}

\* the response body is the set of rows query.all() returns (the query states
\* no order); the query parameters are logged as the request's id
sql_search_books(title, author, min_rating) ==
    /\ variant = "sql"
    /\ resp' = RespId("search_books",
                      [title |-> title, author |-> author, min_rating |-> min_rating],
                      200, 0,
                      <<{BookResponse(id, books[id]) :
                            id \in SearchFilter(books, title, author, min_rating)}>>)
    /\ UNCHANGED <<variant, inflight, todoVars, bookVars, bookHist, issued>>

\* db.delete(book); db.commit(): the table without that row
SqlDelete(table, id) == [k \in DOMAIN table \ {id} |-> table[k]]

\* ---------------------------------------------------------------- in-memory variant
\* basics.py BookCreate: all four fields required
MemBookCreateValid(b) ==
    /\ b.title # Unset /\ ~IsNone(b.title) /\ LenIn(b.title, TitleMinLen, TitleMaxLen)
    /\ b.author # Unset /\ ~IsNone(b.author) /\ LenIn(b.author, AuthorMinLen, AuthorMaxLen)
    /\ b.description # Unset /\ ~IsNone(b.description) /\ LenIn(b.description, 1, BookDescMaxLen)
    /\ b.rating # Unset /\ ~IsNone(b.rating) /\ RatingInRange(b.rating)

\* basics.py BookUpdate: every field optional, null allowed
MemBookUpdateValid(p) ==
    /\ (p.title = Unset \/ IsNone(p.title) \/ LenIn(p.title, TitleMinLen, TitleMaxLen))
    /\ (p.author = Unset \/ IsNone(p.author) \/ LenIn(p.author, AuthorMinLen, AuthorMaxLen))
    /\ (p.description = Unset \/ IsNone(p.description) \/ LenIn(p.description, 1, BookDescMaxLen))
    /\ (p.rating = Unset \/ IsNone(p.rating) \/ RatingInRange(p.rating))

\* Book(id=uuid4(), title=..., author=..., description=..., rating=...)
MemNewBook(id, b) ==
    [id |-> id, title |-> b.title, author |-> b.author,
     description |-> b.description, rating |-> b.rating]

\* existing_book.model_copy(update=update_data): the fields of update_data
\* replace the book's, without validation
ModelCopy(book, p) ==
    [f \in DOMAIN book |-> IF f \in ModelDumpExcludeUnset(p) THEN p[f] ELSE book[f]]

\* BOOKS.pop(index)
Pop(list, index) ==
    [i \in 1..(Len(list) - 1) |-> IF i < index THEN list[i] ELSE list[i + 1]]

\* ---------------------------------------------------------------- todo handlers, step by step
\* Requests that worker processes of the todo service serve at the same time
\* against one collection. Every call of the collection (find_one, update_one,
\* insert_one, delete_one, count_documents) is one atomic step of the storage
\* server, every reading of the clock is a step of its own; the steps of
\* different requests interleave freely and the clock moves on between them. The ids are well-formed and the database handle
\* exists, so validate_object_id and get_todo_collection pass.
MaxRequests == 3

\* the first position of a handler
FirstPc(op) ==
    CASE op \in {"toggle_todo", "update_todo", "get_book", "update_book",
                 "delete_book"} -> "find"
      [] op = "delete_todo" -> "delete"
      [] op = "create_todo" -> "created_at"
      [] op = "create_book" -> "insert"
      [] op = "get_todo_stats" -> "total"
      [] op = "delete_all_books" -> "count"
      [] op = "get_all_books" -> "list"

\* a request that has not started: id and p are its arguments, local the
\* handler's local variable, status 0 until it is answered
Request(op, id, p) ==
    [op |-> op, id |-> id, p |-> p, pc |-> FirstPc(op), local |-> <<>>,
     status |-> 0, body |-> <<>>]

At(r, op, pc) ==
    /\ variant = "todo"
    /\ r \in DOMAIN inflight
    /\ inflight[r].op = op
    /\ inflight[r].pc = pc

Goto(r, pc, local) == [inflight EXCEPT ![r].pc = pc, ![r].local = local]
Finish(r, status, body) ==
    [inflight EXCEPT ![r].pc = "done", ![r].status = status, ![r].body = body]

\* collection.update_one({"_id": oid}, {"$set": set}): no upsert, a filter
\* that matches nothing changes nothing
UpdateOne(coll, oid, set) ==
    IF oid \in DOMAIN coll
    THEN [coll EXCEPT ![oid] =
            [f \in DOMAIN @ |-> IF f \in DOMAIN set THEN set[f] ELSE @[f]]]
    ELSE coll

\* return individual_serial(collection.find_one({"_id": oid})): find_one gives
\* None for a missing document and individual_serial(None) raises TypeError,
\* which the framework answers with 500
SerialFetched(r, coll, oid, ok) ==
    IF oid \in DOMAIN coll
    THEN Finish(r, ok, <<individual_serial(oid, coll[oid])>>)
    ELSE Finish(r, 500, <<>>)

\* todo = collection.find_one(...); if not todo: 404;
\* new_status = not todo.get("complete", False)
toggle_todo_find(r) ==
    /\ At(r, "toggle_todo", "find")
    /\ LET i == Val(inflight[r].id).n IN
       inflight' = IF i \notin DOMAIN todos
                   THEN Finish(r, 404, <<>>)
                   ELSE Goto(r, "utcnow", <<~todos[i].complete>>)
    /\ UNCHANGED <<variant, todoVars, bookVars, bookHist, issued, resp>>

\* datetime.utcnow(), evaluated for the argument of update_one before the
\* call is sent; local is <<new_status, the reading>>
toggle_todo_utcnow(r) ==
    /\ At(r, "toggle_todo", "utcnow")
    /\ inflight' = Goto(r, "update", <<inflight[r].local[1], now>>)
    /\ UNCHANGED <<variant, todoVars, bookVars, bookHist, issued, resp>>

\* collection.update_one(..., {"$set": {"complete": new_status, "updated_at": ...}})
toggle_todo_update(r) ==
    /\ At(r, "toggle_todo", "update")
    /\ todos' = UpdateOne(todos, Val(inflight[r].id).n,
                          [complete |-> inflight[r].local[1],
                           updated_at |-> inflight[r].local[2]])
    /\ inflight' = Goto(r, "fetch", inflight[r].local)
    /\ UNCHANGED <<variant, db, nextOid, now, bookVars, bookHist, issued, resp>>

\* updated_todo = collection.find_one(...); return individual_serial(updated_todo)
toggle_todo_fetch(r) ==
    /\ At(r, "toggle_todo", "fetch")
    /\ inflight' = SerialFetched(r, todos, Val(inflight[r].id).n, 200)
    /\ UNCHANGED <<variant, todoVars, bookVars, bookHist, issued, resp>>

\* existing_todo = collection.find_one(...); if not existing_todo: 404;
\* if not update_data: 400
update_todo_find(r) ==
    /\ At(r, "update_todo", "find")
    /\ LET i == Val(inflight[r].id).n IN
       inflight' = IF i \notin DOMAIN todos THEN Finish(r, 404, <<>>)
                   ELSE IF NoValidFields(Val(inflight[r].p)) THEN Finish(r, 400, <<>>)
                   ELSE Goto(r, "utcnow", <<>>)
    /\ UNCHANGED <<variant, todoVars, bookVars, bookHist, issued, resp>>

\* update_data["updated_at"] = datetime.utcnow(); local is the reading
update_todo_utcnow(r) ==
    /\ At(r, "update_todo", "utcnow")
    /\ inflight' = Goto(r, "update", Some(now))
    /\ UNCHANGED <<variant, todoVars, bookVars, bookHist, issued, resp>>

\* collection.update_one(..., {"$set": update_data})
update_todo_update(r) ==
    /\ At(r, "update_todo", "update")
    /\ LET p == Val(inflight[r].p)
           update_data == [f \in UpdateData(p) \cup {"updated_at"} |->
                              IF f = "updated_at" THEN Val(inflight[r].local)
                              ELSE Val(p[f])]
       IN  todos' = UpdateOne(todos, Val(inflight[r].id).n, update_data)
    /\ inflight' = Goto(r, "fetch", <<>>)
    /\ UNCHANGED <<variant, db, nextOid, now, bookVars, bookHist, issued, resp>>

update_todo_fetch(r) ==
    /\ At(r, "update_todo", "fetch")
    /\ inflight' = SerialFetched(r, todos, Val(inflight[r].id).n, 200)
    /\ UNCHANGED <<variant, todoVars, bookVars, bookHist, issued, resp>>

\* result = collection.delete_one(...); if result.deleted_count == 0: 404
delete_todo_delete(r) ==
    /\ At(r, "delete_todo", "delete")
    /\ LET i == Val(inflight[r].id).n IN
       IF i \notin DOMAIN todos
       THEN /\ inflight' = Finish(r, 404, <<>>)
            /\ UNCHANGED todos
       ELSE /\ todos' = DeleteOne(todos, i)
            /\ inflight' = Finish(r, 204, <<>>)
    /\ UNCHANGED <<variant, db, nextOid, now, bookVars, bookHist, issued, resp>>

\* todo_dict["created_at"] = datetime.utcnow(); local is the reading
create_todo_created_at(r) ==
    /\ At(r, "create_todo", "created_at")
    /\ inflight' = Goto(r, "updated_at", <<now>>)
    /\ UNCHANGED <<variant, todoVars, bookVars, bookHist, issued, resp>>

\* todo_dict["updated_at"] = datetime.utcnow(); local is the two readings
create_todo_updated_at(r) ==
    /\ At(r, "create_todo", "updated_at")
    /\ inflight' = Goto(r, "insert", <<inflight[r].local[1], now>>)
    /\ UNCHANGED <<variant, todoVars, bookVars, bookHist, issued, resp>>

\* result = collection.insert_one(todo_dict)
create_todo_insert(r) ==
    /\ At(r, "create_todo", "insert")
    /\ todos' = (nextOid :> NewTodoDoc(Val(inflight[r].p), inflight[r].local[1],
                                        inflight[r].local[2])) @@ todos
    /\ nextOid' = nextOid + 1
    /\ issued' = issued \cup {nextOid}
    /\ inflight' = Goto(r, "fetch", Some(nextOid))
    /\ UNCHANGED <<variant, db, now, bookVars, bookHist, resp>>

\* created_todo = collection.find_one({"_id": result.inserted_id})
create_todo_fetch(r) ==
    /\ At(r, "create_todo", "fetch")
    /\ inflight' = SerialFetched(r, todos, Val(inflight[r].local), 201)
    /\ UNCHANGED <<variant, todoVars, bookVars, bookHist, issued, resp>>

\* total = collection.count_documents({})
get_todo_stats_total(r) ==
    /\ At(r, "get_todo_stats", "total")
    /\ inflight' = Goto(r, "completed", Some(Cardinality(DOMAIN todos)))
    /\ UNCHANGED <<variant, todoVars, bookVars, bookHist, issued, resp>>

\* completed = collection.count_documents({"complete": True}) and the response
get_todo_stats_completed(r) ==
    /\ At(r, "get_todo_stats", "completed")
    /\ inflight' = Finish(r, 200, <<StatsBody(Val(inflight[r].local),
                                              Cardinality(CompletedIds(todos)))>>)
    /\ UNCHANGED <<variant, todoVars, bookVars, bookHist, issued, resp>>

\* the requests offered: all on the todo created first
StepRequests ==
    {Request("toggle_todo", Some(OidStr(1)), None),
     Request("update_todo", Some(OidStr(1)),
             Some([name |-> Some("b"), description |-> None, complete |-> None])),
     Request("delete_todo", Some(OidStr(1)), None),
     Request("create_todo", None,
             Some([name |-> "b", description |-> "x", complete |-> TRUE])),
     Request("get_todo_stats", None, None)}

\* one todo was created, complete or not; then up to MaxRequests requests
\* arrive together
InitTodoSteps ==
    /\ variant = "todo"
    /\ db = "connected"
    /\ now = 0
    /\ books = <<>>
    /\ BOOKS = <<>>
    /\ nextUuid = 1
    /\ expect = <<>>
    /\ deleted = {}
    /\ issued = {1}
    /\ nextOid = 2
    /\ \E c \in BOOLEAN :
          LET doc == NewTodoDoc([name |-> "a", description |-> "x", complete |-> c], 0, 0)
          IN  /\ todos = (1 :> doc)
              /\ resp = Resp("create_todo", 201, 2, <<individual_serial(1, doc)>>)
    /\ \E n \in 1..MaxRequests : inflight \in [1..n -> StepRequests]

NextTodoSteps ==
    \/ Tick
    \/ \E r \in 1..MaxRequests : toggle_todo_find(r)
    \/ \E r \in 1..MaxRequests : toggle_todo_utcnow(r)
    \/ \E r \in 1..MaxRequests : toggle_todo_update(r)
    \/ \E r \in 1..MaxRequests : toggle_todo_fetch(r)
    \/ \E r \in 1..MaxRequests : update_todo_find(r)
    \/ \E r \in 1..MaxRequests : update_todo_utcnow(r)
    \/ \E r \in 1..MaxRequests : update_todo_update(r)
    \/ \E r \in 1..MaxRequests : update_todo_fetch(r)
    \/ \E r \in 1..MaxRequests : delete_todo_delete(r)
    \/ \E r \in 1..MaxRequests : create_todo_created_at(r)
    \/ \E r \in 1..MaxRequests : create_todo_updated_at(r)
    \/ \E r \in 1..MaxRequests : create_todo_insert(r)
    \/ \E r \in 1..MaxRequests : create_todo_fetch(r)
    \/ \E r \in 1..MaxRequests : get_todo_stats_total(r)
    \/ \E r \in 1..MaxRequests : get_todo_stats_completed(r)
SpecTodoSteps == InitTodoSteps /\ [][NextTodoSteps]_vars

\* ---------------------------------------------------------------- book requests
\* The handlers of both book services are declared with def, so the framework
\* runs each request in a thread of its pool: the requests of a batch are
\* served together and their steps interleave freely. A request whose body
\* the schema refuses is answered 422 before its handler runs.
AtBook(r, v, op, pc) ==
    /\ variant = v
    /\ r \in DOMAIN inflight
    /\ inflight[r].op = op
    /\ inflight[r].pc = pc

\* request bodies of PUT /books/{book_id}
NoFields == [f \in BookFields |-> Unset]
UpdateBodies ==
    <<[NoFields EXCEPT !.title = Some("u")],
      [NoFields EXCEPT !.rating = Some(RatingMax)],
      NoFields,
      [NoFields EXCEPT !.rating = None]>>
\* a body the schema refuses
BadBody == [NoFields EXCEPT !.rating = Some(BadRating)]

\* the requests that address the book id
RequestsOn(id) ==
    <<Request("get_book", Some(id), None),
      Request("delete_book", Some(id), None)>>
        \o [k \in DOMAIN UpdateBodies |->
                Request("update_book", Some(id), Some(UpdateBodies[k]))]
RECURSIVE RequestsOnIds(_)
RequestsOnIds(n) == IF n = 0 THEN <<>> ELSE RequestsOnIds(n - 1) \o RequestsOn(n)

\* the requests offered to a book service whose ids are 1..n; new is the body
\* of a valid POST, lists the GET /books requests
BookRequests(n, new, lists) ==
    <<Request("create_book", None, Some(new)),
      Request("create_book", None, Some(BadBody)),
      Request("update_book", Some(1), Some(BadBody)),
      Request("delete_all_books", None, None)>>
        \o lists
        \o RequestsOnIds(n)

\* the batches of up to MaxRequests requests of the list; the requests of a
\* batch are numbered in the order of the list
Batches(list) ==
    UNION {{[i \in 1..m |-> list[s[i]]] :
                s \in {t \in [1..m -> DOMAIN list] :
                            \A i \in 1..(m - 1) : t[i] <= t[i + 1]}} :
           m \in 1..MaxRequests}

\* ---------------------------------------------------------------- in-memory handlers, step by step
\* Every access to the list BOOKS is one step: one turn of the loop of
\* find_book_by_id, the write BOOKS[index], pop, append, len, clear.
MaxStepBooks == 3

AtMem(r, op, pc) == AtBook(r, "mem", op, pc)

\* the position the loop of find_book_by_id reads next (1 at its start)
IterIndex(r) == IF IsNone(inflight[r].local) THEN 1 ELSE Val(inflight[r].local).index

\* one turn of  for index, book in enumerate(BOOKS): the list iterator ends
\* when its position is past the end of the list as it is now (return None,
\* answered 404), otherwise it yields the book at that position; a book with
\* the id leaves the loop, another one moves the position on
MemFind(r) ==
    LET index == IterIndex(r) IN
    IF index > Len(BOOKS) THEN Finish(r, 404, <<>>)
    ELSE IF BOOKS[index].id = Val(inflight[r].id)
         THEN Goto(r, "found", Some([index |-> index, book |-> BOOKS[index]]))
    ELSE Goto(r, "find", Some([index |-> index + 1, book |-> None]))

\* return BOOKS
mem_get_all_books(r) ==
    /\ AtMem(r, "get_all_books", "list")
    /\ inflight' = Finish(r, 200, <<BOOKS>>)
    /\ UNCHANGED <<variant, todoVars, bookVars, bookHist, issued, resp>>

mem_get_book_find(r) ==
    /\ AtMem(r, "get_book", "find")
    /\ inflight' = MemFind(r)
    /\ UNCHANGED <<variant, todoVars, bookVars, bookHist, issued, resp>>

\* return result[1]
mem_get_book_return(r) ==
    /\ AtMem(r, "get_book", "found")
    /\ inflight' = Finish(r, 200, <<Val(inflight[r].local).book>>)
    /\ UNCHANGED <<variant, todoVars, bookVars, bookHist, issued, resp>>

\* BOOKS.append(new_book); the id is a fresh uuid4()
mem_create_book_append(r) ==
    /\ AtMem(r, "create_book", "insert")
    /\ LET b == Val(inflight[r].p) IN
       IF ~MemBookCreateValid(b)
       THEN /\ inflight' = Finish(r, 422, <<>>)
            /\ UNCHANGED <<BOOKS, nextUuid, issued, bookHist>>
       ELSE LET new_book == MemNewBook(nextUuid, b) IN
            /\ BOOKS' = Append(BOOKS, new_book)
            /\ inflight' = Finish(r, 201, <<new_book>>)
            /\ nextUuid' = nextUuid + 1
            /\ issued' = issued \cup {nextUuid}
            /\ HistCreated(nextUuid, b)
    /\ UNCHANGED <<variant, todoVars, books, resp>>

mem_update_book_find(r) ==
    /\ AtMem(r, "update_book", "find")
    /\ inflight' = IF IsNone(inflight[r].local) /\ ~MemBookUpdateValid(Val(inflight[r].p))
                   THEN Finish(r, 422, <<>>)
                   ELSE MemFind(r)
    /\ UNCHANGED <<variant, todoVars, bookVars, bookHist, issued, resp>>

\* updated_book = existing_book.model_copy(update=update_data);
\* BOOKS[index] = updated_book raises IndexError past the end of the list
mem_update_book_write(r) ==
    /\ AtMem(r, "update_book", "found")
    /\ LET index == Val(inflight[r].local).index
           updated_book == ModelCopy(Val(inflight[r].local).book, Val(inflight[r].p))
       IN  IF index > Len(BOOKS)
           THEN /\ inflight' = Finish(r, 500, <<>>)
                /\ UNCHANGED <<BOOKS, bookHist>>
           ELSE /\ BOOKS' = [BOOKS EXCEPT ![index] = updated_book]
                /\ inflight' = Finish(r, 200, <<updated_book>>)
                /\ HistUpdated(Val(inflight[r].id), Val(inflight[r].p))
    /\ UNCHANGED <<variant, todoVars, books, nextUuid, issued, resp>>

mem_delete_book_find(r) ==
    /\ AtMem(r, "delete_book", "find")
    /\ inflight' = MemFind(r)
    /\ UNCHANGED <<variant, todoVars, bookVars, bookHist, issued, resp>>

\* BOOKS.pop(index) raises IndexError past the end of the list; the response
\* names the book that was found
mem_delete_book_write(r) ==
    /\ AtMem(r, "delete_book", "found")
    /\ LET index == Val(inflight[r].local).index
           deleted_book == Val(inflight[r].local).book
       IN  IF index > Len(BOOKS)
           THEN /\ inflight' = Finish(r, 500, <<>>)
                /\ UNCHANGED <<BOOKS, bookHist>>
           ELSE /\ BOOKS' = Pop(BOOKS, index)
                /\ inflight' = Finish(r, 200, <<[id |-> deleted_book.id,
                                                 title |-> deleted_book.title]>>)
                /\ HistDeleted(Val(inflight[r].id))
    /\ UNCHANGED <<variant, todoVars, books, nextUuid, issued, resp>>

\* count = len(BOOKS)
mem_delete_all_books_count(r) ==
    /\ AtMem(r, "delete_all_books", "count")
    /\ inflight' = Goto(r, "clear", Some(Len(BOOKS)))
    /\ UNCHANGED <<variant, todoVars, bookVars, bookHist, issued, resp>>

\* BOOKS.clear(); the message states the count read before
mem_delete_all_books_clear(r) ==
    /\ AtMem(r, "delete_all_books", "clear")
    /\ BOOKS' = <<>>
    /\ inflight' = Finish(r, 200, <<[deleted_count |-> Val(inflight[r].local)]>>)
    /\ HistDeletedAll
    /\ UNCHANGED <<variant, todoVars, books, nextUuid, issued, resp>>

\* the body of a valid POST /books of basics.py
MemNewBody ==
    [title |-> Some("n"), author |-> Some("k"), description |-> Some("d"),
     rating |-> Some(0)]

\* the in-memory service after n books were created
MemCreated(n) ==
    LET new_book(i) == MemNewBook(i, [title |-> Some("t"), author |-> Some("k"),
                                      description |-> Some("d"), rating |-> Some(0)])
    IN  /\ variant = "mem"
        /\ db = "None"
        /\ todos = <<>>
        /\ nextOid = 1
        /\ now = 0
        /\ books = <<>>
        /\ deleted = {}
        /\ BOOKS = [i \in 1..n |-> new_book(i)]
        /\ nextUuid = n + 1
        /\ issued = 1..n
        /\ expect = [i \in 1..n |-> [f \in BookFields |-> new_book(i)[f]]]
        /\ resp = Resp("none", 0, 0, <<>>)

\* up to MaxUuid books were created; then a batch of requests arrives
InitMem ==
    \E n \in 0..MaxUuid :
        /\ MemCreated(n)
        /\ inflight \in Batches(BookRequests(MaxUuid, MemNewBody,
                <<Request("get_all_books", None, None)>>))

\* the writes of a longer list: a new title for a book, its removal, reads
MemStepRequests(n) ==
    {Request("update_book", Some(id), Some(UpdateBodies[1])) : id \in 1..n}
        \cup {Request("delete_book", Some(id), None) : id \in 1..n}
        \cup {Request("get_book", Some(id), None) : id \in 1..n}
        \cup {Request("create_book", None, Some(MemNewBody)),
              Request("delete_all_books", None, None)}

\* up to MaxStepBooks books were created; then up to MaxRequests requests
\* arrive together
InitMemSteps ==
    \E n \in 1..MaxStepBooks :
        /\ MemCreated(n)
        /\ \E m \in 1..MaxRequests : inflight \in [1..m -> MemStepRequests(n)]

NextMemSteps ==
    \/ \E r \in 1..MaxRequests : mem_get_book_find(r)
    \/ \E r \in 1..MaxRequests : mem_get_book_return(r)
    \/ \E r \in 1..MaxRequests : mem_create_book_append(r)
    \/ \E r \in 1..MaxRequests : mem_update_book_find(r)
    \/ \E r \in 1..MaxRequests : mem_update_book_write(r)
    \/ \E r \in 1..MaxRequests : mem_delete_book_find(r)
    \/ \E r \in 1..MaxRequests : mem_delete_book_write(r)
    \/ \E r \in 1..MaxRequests : mem_delete_all_books_count(r)
    \/ \E r \in 1..MaxRequests : mem_delete_all_books_clear(r)
SpecMemSteps == InitMemSteps /\ [][NextMemSteps]_vars

NextMem ==
    \/ \E r \in 1..MaxRequests : mem_get_all_books(r)
    \/ NextMemSteps

\* ---------------------------------------------------------------- relational handlers, step by step
\* get_db gives every request a session and a connection of its own. A
\* statement sent to the engine is one step: a SELECT sees what is
\* committed; the flush of commit() (INSERT, UPDATE or DELETE) and its COMMIT
\* are one step, because the engine lets one connection write at a time.
AtSql(r, op, pc) == AtBook(r, "sql", op, pc)

\* db.query(Book).offset(skip).limit(limit).all(): the rows in rowid order
sql_get_all_books(r) ==
    /\ AtSql(r, "get_all_books", "list")
    /\ LET skip == Val(inflight[r].p).skip
           limit == Val(inflight[r].p).limit
           page == SqlPage(IdsInOrder(DOMAIN books), skip, limit)
       IN  inflight' = Finish(r, 200,
                <<[k \in DOMAIN page |-> BookResponse(page[k], books[page[k]])]>>)
    /\ UNCHANGED <<variant, todoVars, bookVars, bookHist, issued, resp>>

\* db.query(Book).filter(Book.id == book_id).first(); if book is None: 404;
\* return book
sql_get_book_first(r) ==
    /\ AtSql(r, "get_book", "find")
    /\ LET id == Val(inflight[r].id) IN
       inflight' = IF id \notin DOMAIN books THEN Finish(r, 404, <<>>)
                   ELSE Finish(r, 200, <<BookResponse(id, books[id])>>)
    /\ UNCHANGED <<variant, todoVars, bookVars, bookHist, issued, resp>>

\* db.add(new_book); db.commit(): the INSERT takes the next rowid
sql_create_book_commit(r) ==
    /\ AtSql(r, "create_book", "insert")
    /\ LET b == Val(inflight[r].p)
           id == NextRowId(books)
       IN  IF ~SqlBookCreateValid(b)
           THEN /\ inflight' = Finish(r, 422, <<>>)
                /\ UNCHANGED <<books, issued, bookHist>>
           ELSE IF ~SqlConstraintsOk(SqlNewRow(b))
           THEN /\ inflight' = Finish(r, 500, <<>>)
                /\ UNCHANGED <<books, issued, bookHist>>
           ELSE /\ books' = (id :> SqlNewRow(b)) @@ books
                /\ issued' = issued \cup {id}
                /\ inflight' = Goto(r, "refresh", Some(id))
                /\ HistCreated(id, b)
    /\ UNCHANGED <<variant, todoVars, BOOKS, nextUuid, resp>>

\* db.refresh(book): a SELECT by primary key; it raises InvalidRequestError
\* (answered 500) when the row is gone, otherwise the response shows the row
\* as it is now
SqlRefreshed(r, id, ok) ==
    IF id \notin DOMAIN books THEN Finish(r, 500, <<>>)
    ELSE Finish(r, ok, <<BookResponse(id, books[id])>>)

sql_create_book_refresh(r) ==
    /\ AtSql(r, "create_book", "refresh")
    /\ inflight' = SqlRefreshed(r, Val(inflight[r].local), 201)
    /\ UNCHANGED <<variant, todoVars, bookVars, bookHist, issued, resp>>

\* book = db.query(Book).filter(...).first(); if book is None: 404
SqlFirst(r) ==
    LET id == Val(inflight[r].id) IN
    IF id \notin DOMAIN books THEN Finish(r, 404, <<>>)
    ELSE Goto(r, "commit", Some(books[id]))

sql_update_book_first(r) ==
    /\ AtSql(r, "update_book", "find")
    /\ inflight' = IF ~SqlBookUpdateValid(Val(inflight[r].p))
                   THEN Finish(r, 422, <<>>)
                   ELSE SqlFirst(r)
    /\ UNCHANGED <<variant, todoVars, bookVars, bookHist, issued, resp>>

\* setattr(book, field, value) for the fields of update_data; db.commit():
\* the unit of work sends UPDATE ... SET for the attributes whose value
\* differs from the one loaded, and no statement when there is none; an
\* UPDATE that matches no row raises StaleDataError, a value the table
\* refuses raises IntegrityError (both answered 500)
sql_update_book_commit(r) ==
    /\ AtSql(r, "update_book", "commit")
    /\ LET id == Val(inflight[r].id)
           loaded == Val(inflight[r].local)
           book == SetAttrs(loaded, Val(inflight[r].p))
           changed == {f \in BookFields : book[f] # loaded[f]}
       IN  IF changed = {}
           THEN /\ inflight' = Goto(r, "refresh", None)
                /\ UNCHANGED <<books, bookHist>>
           ELSE IF id \notin DOMAIN books
           THEN /\ inflight' = Finish(r, 500, <<>>)
                /\ UNCHANGED <<books, bookHist>>
           ELSE LET row == [f \in BookFields |->
                               IF f \in changed THEN book[f] ELSE books[id][f]]
                IN  IF ~SqlConstraintsOk(row)
                    THEN /\ inflight' = Finish(r, 500, <<>>)
                         /\ UNCHANGED <<books, bookHist>>
                    ELSE /\ books' = [books EXCEPT ![id] = row]
                         /\ inflight' = Goto(r, "refresh", None)
                         /\ HistUpdated(id, Val(inflight[r].p))
    /\ UNCHANGED <<variant, todoVars, BOOKS, nextUuid, issued, resp>>

sql_update_book_refresh(r) ==
    /\ AtSql(r, "update_book", "refresh")
    /\ inflight' = SqlRefreshed(r, Val(inflight[r].id), 200)
    /\ UNCHANGED <<variant, todoVars, bookVars, bookHist, issued, resp>>

sql_delete_book_first(r) ==
    /\ AtSql(r, "delete_book", "find")
    /\ inflight' = SqlFirst(r)
    /\ UNCHANGED <<variant, todoVars, bookVars, bookHist, issued, resp>>

\* deleted_title = book.title; db.delete(book); db.commit(): a DELETE that
\* matches no row only warns, the request is answered 200 all the same
sql_delete_book_commit(r) ==
    /\ AtSql(r, "delete_book", "commit")
    /\ LET id == Val(inflight[r].id) IN
       /\ books' = SqlDelete(books, id)
       /\ inflight' = Finish(r, 200, <<[deleted_id |-> id,
                                         deleted_title |-> Val(inflight[r].local).title]>>)
       /\ HistDeleted(id)
    /\ UNCHANGED <<variant, todoVars, BOOKS, nextUuid, issued, resp>>

\* count = db.query(Book).count()
sql_delete_all_books_count(r) ==
    /\ AtSql(r, "delete_all_books", "count")
    /\ inflight' = Goto(r, "delete", Some(Cardinality(DOMAIN books)))
    /\ UNCHANGED <<variant, todoVars, bookVars, bookHist, issued, resp>>

\* db.query(Book).delete(); db.commit(); the message states the count read
\* before
sql_delete_all_books_delete(r) ==
    /\ AtSql(r, "delete_all_books", "delete")
    /\ books' = <<>>
    /\ inflight' = Finish(r, 200, <<[deleted_count |-> Val(inflight[r].local)]>>)
    /\ HistDeletedAll
    /\ UNCHANGED <<variant, todoVars, BOOKS, nextUuid, issued, resp>>

\* the body of a valid POST /books of main.py: description and rating left out
SqlNewBody == [NoFields EXCEPT !.title = Some("n"), !.author = Some("k")]
\* the arguments offered to GET /books: the defaults, and a negative limit
SqlListInputs == <<[skip |-> 0, limit |-> 100], [skip |-> 1, limit |-> -1]>>

\* up to MaxRowId books were created; then a batch of requests arrives
InitSql ==
    /\ variant = "sql"
    /\ db = "None"
    /\ todos = <<>>
    /\ nextOid = 1
    /\ now = 0
    /\ BOOKS = <<>>
    /\ nextUuid = 1
    /\ deleted = {}
    /\ resp = Resp("none", 0, 0, <<>>)
    /\ \E n \in 0..MaxRowId :
          LET b == [title |-> Some("t"), author |-> Some("k"),
                    description |-> Some("d"), rating |-> Some(0)]
          IN  /\ books = [i \in 1..n |-> SqlNewRow(b)]
              /\ issued = 1..n
              /\ expect = [i \in 1..n |-> GivenAtCreate(b)]
    /\ inflight \in Batches(BookRequests(MaxRowId, SqlNewBody,
            [k \in DOMAIN SqlListInputs |->
                Request("get_all_books", None, Some(SqlListInputs[k]))]))

NextSql ==
    \/ \E r \in 1..MaxRequests : sql_get_all_books(r)
    \/ \E r \in 1..MaxRequests : sql_get_book_first(r)
    \/ \E r \in 1..MaxRequests : sql_create_book_commit(r)
    \/ \E r \in 1..MaxRequests : sql_create_book_refresh(r)
    \/ \E r \in 1..MaxRequests : sql_update_book_first(r)
    \/ \E r \in 1..MaxRequests : sql_update_book_commit(r)
    \/ \E r \in 1..MaxRequests : sql_update_book_refresh(r)
    \/ \E r \in 1..MaxRequests : sql_delete_book_first(r)
    \/ \E r \in 1..MaxRequests : sql_delete_book_commit(r)
    \/ \E r \in 1..MaxRequests : sql_delete_all_books_count(r)
    \/ \E r \in 1..MaxRequests : sql_delete_all_books_delete(r)

\* ---------------------------------------------------------------- specification
\* the todo service before its first request
InitTodo ==
    /\ variant = "todo"
    /\ db = "None"
    /\ todos = <<>>
    /\ nextOid = 1
    /\ now = 0
    /\ books = <<>>
    /\ BOOKS = <<>>
    /\ nextUuid = 1
    /\ issued = {}
    /\ expect = <<>>
    /\ deleted = {}
    /\ inflight = <<>>
    /\ resp = Resp("none", 0, 0, <<>>)

NextTodo ==
    \/ lifespan
    \/ Tick
    \/ \E skip \in SkipInputs, limit \in LimitInputs, complete \in CompleteInputs :
            get_todos(skip, limit, complete)
    \/ \E id \in TodoIdInputs : get_todo(id)
    \/ \E t \in TodoCreateInputs, t2 \in 0..MaxClock : create_todo(t, t2)
    \/ \E id \in TodoIdInputs, p \in TodoUpdateInputs : update_todo(id, p)
    \/ \E id \in TodoIdInputs : toggle_todo(id)
    \/ \E id \in TodoIdInputs : delete_todo(id)
    \/ delete_completed_todos
    \/ get_todo_stats

\* the todo service alone
SpecTodo == InitTodo /\ [][NextTodo]_vars

\* the two book services
InitBooks == InitSql \/ InitMem
NextBooks == NextSql \/ NextMem
SpecBooks == InitBooks /\ [][NextBooks]_vars

\* the three services
Init == InitTodo \/ InitBooks
Next == NextTodo \/ NextSql \/ NextMem
Spec == Init /\ [][Next]_vars

\* the todo service after n todos were created at time 0, answering
\* statistics requests: up to MaxStatTodos todos each complete or not, and
\* larger collections, up to MaxStatStore todos, whose first k are complete
MaxStatTodos == 6
MaxStatStore == 160
StatFlags(n) ==
    IF n <= MaxStatTodos THEN [1..n -> BOOLEAN]
    ELSE {[i \in 1..n |-> i <= k] : k \in 0..n}
InitStats ==
    /\ variant = "todo"
    /\ db = "connected"
    /\ now = 0
    /\ books = <<>>
    /\ BOOKS = <<>>
    /\ nextUuid = 1
    /\ expect = <<>>
    /\ deleted = {}
    /\ inflight = <<>>
    /\ \E n \in 0..MaxStatStore : \E flags \in StatFlags(n) :
          LET doc(i) == NewTodoDoc([name |-> "a", description |-> "x",
                                    complete |-> flags[i]], 0, 0)
          IN  /\ todos = [i \in 1..n |-> doc(i)]
              /\ nextOid = n + 1
              /\ issued = 1..n
              /\ resp = IF n = 0 THEN Resp("none", 0, 0, <<>>)
                        ELSE Resp("create_todo", 201, 2, <<individual_serial(n, doc(n))>>)
NextStats == get_todo_stats
SpecStats == InitStats /\ [][NextStats]_vars

\* the relational service answering searches over a table of up to
\* MaxSearchBooks rows
MaxSearchBooks == 2
SearchTitles == {<<"D", "u">>, <<"d", "_">>, <<"x">>}
SearchAuthors == {<<"k">>, <<"K", "z">>}
SearchRatings == {0, 50}
\* the texts and thresholds offered to GET /books/search/
TitleQueries == {None, Some(<<>>), Some(<<"d">>), Some(<<"u">>), Some(<<"_">>), Some(<<"%">>)}
AuthorQueries == {None, Some(<<"k">>), Some(<<"z">>)}
MinRatingQueries == {None, Some(0), Some(50)}
InitSearch ==
    /\ variant = "sql"
    /\ db = "None"
    /\ todos = <<>>
    /\ nextOid = 1
    /\ now = 0
    /\ BOOKS = <<>>
    /\ nextUuid = 1
    /\ deleted = {}
    /\ inflight = <<>>
    /\ resp = Resp("none", 0, 0, <<>>)
    /\ \E n \in 0..MaxSearchBooks :
        /\ books \in [1..n -> [title : {Some(t) : t \in SearchTitles},
                               author : {Some(a) : a \in SearchAuthors},
                               description : {None},
                               rating : {Some(r) : r \in SearchRatings}]]
        /\ issued = 1..n
        /\ expect = books
NextSearch ==
    \E title \in TitleQueries, author \in AuthorQueries, min_rating \in MinRatingQueries :
        sql_search_books(title, author, min_rating)
SpecSearch == InitSearch /\ [][NextSearch]_vars

\* ---------------------------------------------------------------- properties
\* a request was answered in this step (Tick and lifespan answer none)
Answered == resp' # resp

UpdateOps == {"update_todo", "update_book"}
DeleteOps == {"delete_todo", "delete_book"}

\* the first position of a book with that id in the list (0 when absent)
IndexOf(list, id) ==
    IF \E k \in 1..Len(list) : list[k].id = id
    THEN CHOOSE k \in 1..Len(list) :
            list[k].id = id /\ \A j \in 1..(k - 1) : list[j].id # id
    ELSE 0

\* the ids of the books of the list
BookIds == {BOOKS[k].id : k \in 1..Len(BOOKS)}

\* a request of a book service takes a step; it is answered in this step
Moves(r) == r \in DOMAIN inflight /\ inflight'[r] # inflight[r]
Answers(r) == Moves(r) /\ inflight'[r].pc = "done"
\* the requests of a batch that were answered with that status
DoneWith(op, status) ==
    {r \in DOMAIN inflight :
        inflight[r].op = op /\ inflight[r].pc = "done" /\ inflight[r].status = status}

\* C1 (as claimed): a PUT leaves every field that is not in its update data as
\* it was (for a Todo all but updated_at), and leaves every other record as it
\* was.
C1_PartialUpdateKeepsOmitted ==
    [][/\ (resp'.op \in UpdateOps /\ resp'.status = 200 /\ Answered) =>
            LET id == Val(resp'.id) IN
            /\ DOMAIN todos' = DOMAIN todos
            /\ id.n \in DOMAIN todos
            /\ \A f \in (DOMAIN todos[id.n] \ {"updated_at"}) \ resp'.applied :
                    todos'[id.n][f] = todos[id.n][f]
            /\ \A j \in DOMAIN todos \ {id.n} : todos'[j] = todos[j]
       /\ \A r \in DOMAIN inflight :
            (inflight[r].op = "update_book" /\ Moves(r)) =>
                LET id == Val(inflight[r].id)
                    omitted == (BookFields \cup {"id"})
                                    \ ModelDumpExcludeUnset(Val(inflight[r].p))
                IN
                /\ DOMAIN books' = DOMAIN books
                /\ \A j \in DOMAIN books :
                        \A f \in BookFields :
                            (j # id \/ f \in omitted) => books'[j][f] = books[j][f]
                /\ Len(BOOKS') = Len(BOOKS)
                /\ \A k \in 1..Len(BOOKS) :
                        \A f \in BookFields \cup {"id"} :
                            (BOOKS[k].id # id \/ f \in omitted) =>
                                BOOKS'[k][f] = BOOKS[k][f]
    ]_vars

\* C1 failing input reached: two PUTs of the in-memory book 1, one with a
\* title and one with a rating, were both answered 200 and the book has the
\* title it had before.
C1_StaleCopyWritten ==
    /\ variant = "mem"
    /\ Len(inflight) = 2
    /\ \E r1, r2 \in DoneWith("update_book", 200) :
            /\ inflight[r1].id = Some(1) /\ inflight[r2].id = Some(1)
            /\ Val(inflight[r1].p).title = Some("u")
            /\ Val(inflight[r2].p).rating = Some(RatingMax)
    /\ Len(BOOKS) >= 1
    /\ BOOKS[1].id = 1
    /\ BOOKS[1].title = Some("t")
    /\ BOOKS[1].rating = Some(RatingMax)

\* C2 (as claimed): every stored Book, relational or in-memory, has an integer
\* rating with 0 <= rating <= 100.
C2_RatingInRange ==
    /\ \A id \in DOMAIN books :
            ~IsNone(books[id].rating) /\ RatingInRange(books[id].rating)
    /\ \A k \in 1..Len(BOOKS) :
            ~IsNone(BOOKS[k].rating) /\ RatingInRange(BOOKS[k].rating)
\* C2 failing input reached: the in-memory list holds a book without a rating
\* after PUT {"rating": null} was answered 200.
C2_NullRatingStored ==
    /\ variant = "mem"
    /\ \E r \in DoneWith("update_book", 200) : Val(inflight[r].p).rating = None
    /\ \E k \in 1..Len(BOOKS) : IsNone(BOOKS[k].rating)

\* C3: a successful toggle stores and returns the negated complete flag; a
\* successful toggle that follows a successful toggle of the same id restores
\* the flag the first one found; a step that does not address a todo leaves its
\* flag alone.
C3_ToggleInvolution ==
    [][/\ (resp'.op = "toggle_todo" /\ resp'.status = 200 /\ Answered) =>
            LET i == Val(resp'.id).n IN
            /\ i \in DOMAIN todos /\ i \in DOMAIN todos'
            /\ resp'.was = Some(todos[i].complete)
            /\ resp'.body[1].id = Val(resp'.id)
            /\ resp'.body[1].complete = ~todos[i].complete
            /\ todos'[i].complete = ~todos[i].complete
            /\ (resp.op = "toggle_todo" /\ resp.status = 200 /\ resp.id = resp'.id) =>
                    todos'[i].complete = Val(resp.was)
       /\ \A j \in DOMAIN todos \cap DOMAIN todos' :
            (~Answered \/ resp'.id # Some(OidStr(j))) =>
                    todos'[j].complete = todos[j].complete
    ]_vars

\* C3 witness: a toggle found a completed todo and returned it not completed.
C3_Witness ==
    /\ resp.op = "toggle_todo" /\ resp.status = 200
    /\ resp.was = Some(TRUE)
    /\ resp.body[1].complete = FALSE
    /\ todos[Val(resp.id).n].complete = FALSE

\* the ids of the stored records, and the stored record of an id
StoreIds ==
    CASE variant = "todo" -> DOMAIN todos
      [] variant = "sql" -> DOMAIN books
      [] variant = "mem" -> {BOOKS[k].id : k \in 1..Len(BOOKS)}
StoreIdsNext ==
    CASE variant = "todo" -> DOMAIN todos'
      [] variant = "sql" -> DOMAIN books'
      [] variant = "mem" -> {BOOKS'[k].id : k \in 1..Len(BOOKS')}
Stored(i) ==
    CASE variant = "todo" -> todos[i]
      [] variant = "sql" -> books[i]
      [] variant = "mem" -> BOOKS[IndexOf(BOOKS, i)]
StoredNext(i) ==
    CASE variant = "todo" -> todos'[i]
      [] variant = "sql" -> books'[i]
      [] variant = "mem" -> BOOKS'[IndexOf(BOOKS', i)]
\* the key a path id addresses (a well-formed one)
KeyOf(id) == IF variant = "todo" THEN id.n ELSE id
WellFormed(id) == variant = "todo" => ObjectIdValid(id)
StoresUnchanged == todos' = todos /\ books' = books /\ BOOKS' = BOOKS

\* C4 (as claimed): a DELETE answered with success removed exactly the record
\* of its id, and every other record is as it was; a DELETE answered 404 found
\* no such record and changed nothing; the DELETE that directly follows a
\* successful DELETE of the same id is answered 404.
C4_DeleteExactlyOne ==
    [][/\ resp'.op \in DeleteOps =>
            /\ (resp'.status \in {200, 204} /\ Answered) =>
                    LET i == KeyOf(Val(resp'.id)) IN
                    /\ i \in StoreIds
                    /\ StoreIdsNext = StoreIds \ {i}
                    /\ \A j \in StoreIdsNext : StoredNext(j) = Stored(j)
            /\ resp'.status = 404 =>
                    /\ KeyOf(Val(resp'.id)) \notin StoreIds
                    /\ StoresUnchanged
            /\ (resp.op \in DeleteOps /\ resp.status \in {200, 204}
                    /\ resp'.id = resp.id /\ Answered) =>
                    resp'.status = 404 /\ StoresUnchanged
       /\ \A r \in DOMAIN inflight :
            (inflight[r].op = "delete_book" /\ Answers(r)) =>
                LET i == Val(inflight[r].id) IN
                /\ inflight'[r].status \in {200, 404}
                /\ inflight'[r].status = 200 =>
                        /\ i \in StoreIds
                        /\ StoreIdsNext = StoreIds \ {i}
                        /\ \A j \in StoreIdsNext : StoredNext(j) = Stored(j)
                        /\ variant = "mem" => Len(BOOKS') = Len(BOOKS) - 1
                /\ inflight'[r].status = 404 =>
                        /\ i \notin StoreIds
                        /\ StoresUnchanged
    ]_vars

\* C4 failing input reached: two DELETEs of the row 1, the only requests and
\* no create among them, were both answered 200.
C4_BothDeletesSucceed ==
    /\ variant = "sql"
    /\ Len(inflight) = 2
    /\ \A r \in 1..2 :
            /\ inflight[r].id = Some(1)
            /\ r \in DoneWith("delete_book", 200)

StatsAnswer == resp.op = "get_todo_stats" /\ resp.status = 200

\* C5 (as claimed): completed + pending = total, the rate is 0 when total = 0
\* and is exactly completed / total * 100 otherwise (rates are in hundredths).
C5_RateExact ==
    StatsAnswer =>
        LET b == resp.body[1] IN
        /\ b.total = Cardinality(DOMAIN todos)
        /\ b.completed + b.pending = b.total
        /\ b.total = 0 => b.completion_rate = 0
        /\ b.total > 0 => b.completion_rate * b.total = b.completed * 10000

\* C5 (amended): completed + pending = total, the rate is 0 when total = 0 and
\* is completed / total * 100 rounded to two decimals otherwise: no hundredth
\* is nearer to the exact quotient (when the quotient lies midway between two
\* hundredths, the floating-point product decides which of them is returned).
C5_RateRounded ==
    StatsAnswer =>
        LET b == resp.body[1]
            err == b.completion_rate * b.total - b.completed * 10000
        IN
        /\ b.total = Cardinality(DOMAIN todos)
        /\ b.completed = Cardinality({i \in DOMAIN todos : todos[i].complete})
        /\ b.completed + b.pending = b.total
        /\ b.total = 0 => b.completion_rate = 0
        /\ b.total > 0 => (2 * err <= b.total /\ -2 * err <= b.total)

\* C5 witness: statistics of three todos, two of them completed: 66.67.
C5_Witness ==
    /\ StatsAnswer
    /\ resp.body[1].total = 3 /\ resp.body[1].completed = 2
    /\ resp.body[1].completion_rate = 6667
CreateOps == {"create_todo", "create_book"}
ReadOps == {"get_todo", "get_book", "update_todo", "update_book", "toggle_todo"}
\* the id a response body shows, as a store key
BodyKey(r) == KeyOf(r.body[1].id)

\* C6 (as claimed): the id a create returns was never the id of a record of
\* the store before and the new record is stored under it; the ids of the
\* stored records differ from one another; a read, update or toggle answered
\* 200 returns the id asked for; no step changes the id of a stored record.
C6_IdUniqueAndStable ==
    [][/\ (resp'.op \in CreateOps /\ resp'.status = 201 /\ Answered) =>
            /\ BodyKey(resp') \notin issued
            /\ BodyKey(resp') \notin StoreIds
            /\ StoreIdsNext = StoreIds \cup {BodyKey(resp')}
            /\ \A j \in StoreIds : StoredNext(j) = Stored(j)
       /\ (resp'.op \in ReadOps /\ resp'.status = 200) =>
            /\ resp'.body[1].id = Val(resp'.id)
            /\ BodyKey(resp') \in StoreIdsNext
       /\ \A r \in DOMAIN inflight :
            /\ (inflight[r].op = "create_book" /\ Moves(r)) =>
                    /\ (StoreIdsNext \ StoreIds) \cap issued = {}
                    /\ inflight'[r].status = 201 =>
                            inflight'[r].body[1].id \in issued'
            /\ (inflight[r].op \in ReadOps /\ Answers(r)
                    /\ inflight'[r].status = 200) =>
                    inflight'[r].body[1].id = Val(inflight[r].id)
       /\ \A j, k \in 1..Len(BOOKS') : BOOKS'[j].id = BOOKS'[k].id => j = k
       /\ Len(BOOKS') = Len(BOOKS) =>
            \A k \in 1..Len(BOOKS) : BOOKS'[k].id = BOOKS[k].id
    ]_vars

\* C6 failing input reached: the in-memory list holds two books with one id,
\* and the book of another id, which no DELETE asked for, is gone.
C6_TwoBooksOneId ==
    /\ variant = "mem"
    /\ \E j, k \in 1..Len(BOOKS) : j < k /\ BOOKS[j].id = BOOKS[k].id
    /\ \E i \in issued \ BookIds :
            \A r \in DOMAIN inflight : inflight[r].id # Some(i)

\* C7: every stored todo has created_at <= updated_at, and no step changes the
\* created_at of a stored todo.
C7_CreatedBeforeUpdated ==
    /\ [](\A i \in DOMAIN todos : todos[i].created_at <= todos[i].updated_at)
    /\ [][\A i \in DOMAIN todos \cap DOMAIN todos' :
             todos'[i].created_at = todos[i].created_at]_vars

\* C7 witness: a todo updated or toggled after the clock moved on.
C7_Witness ==
    /\ resp.op \in {"update_todo", "toggle_todo"} /\ resp.status = 200
    /\ resp.body[1].created_at < resp.body[1].updated_at
    /\ \E i \in DOMAIN todos : todos[i].created_at < todos[i].updated_at

IdOps == {"get_todo", "update_todo", "toggle_todo", "delete_todo"}
Malformed(r) == r.op \in IdOps /\ r.status # 422 /\ ~ObjectIdValid(Val(r.id))

\* C8 (as claimed): a request with a malformed id is answered 400 (never 404)
\* before any round trip to the storage server, and changes no todo.
C8_MalformedIdRejectedFirst ==
    /\ [](Malformed(resp) => (resp.status = 400 /\ resp.calls = 0))
    /\ [][(Malformed(resp') /\ Answered) => todos' = todos]_vars

\* C8 failing input reached: a malformed id was answered after a round trip
\* to the storage server.
C8_PingBeforeValidation ==
    Malformed(resp) /\ resp.status = 400 /\ resp.calls > 0

\* C9: delete-all-completed removes exactly the completed todos, leaves the
\* others as they were and reports how many it removed; with no completed todo
\* it reports 0 and changes nothing.
C9_DeleteCompleted ==
    [][(resp'.op = "delete_completed_todos" /\ Answered) =>
        LET done == {i \in DOMAIN todos : todos[i].complete} IN
        /\ resp'.status = 200
        /\ DOMAIN todos' = DOMAIN todos \ done
        /\ \A i \in DOMAIN todos' : todos'[i] = todos[i]
        /\ resp'.body[1].deleted_count = Cardinality(done)
        /\ done = {} => (todos' = todos /\ resp'.body[1].deleted_count = 0)
    ]_vars

\* C9 witness: one of two todos was completed and was removed, count 1.
C9_Witness ==
    /\ resp.op = "delete_completed_todos" /\ resp.status = 200
    /\ resp.body[1].deleted_count = 1
    /\ Cardinality(DOMAIN todos) = 1
    /\ \A i \in DOMAIN todos : ~todos[i].complete

\* C10 (as claimed): an update with nothing to apply is answered, by the todo
\* service, 400 (404 when the well-formed id is unknown) and changes no todo,
\* updated_at included; by the relational service, 200 with the row as it is
\* stored when the handler found the id (404 when it did not), and the table
\* is unchanged.
C10_EmptyUpdate ==
    [][/\ (resp'.op \in UpdateOps /\ resp'.status # 422 /\ resp'.applied = {}
            /\ Answered /\ variant = "todo") =>
            LET id == Val(resp'.id) IN
            /\ StoresUnchanged
            /\ resp'.status =
                    IF WellFormed(id) /\ id.n \notin DOMAIN todos THEN 404 ELSE 400
       /\ \A r \in DOMAIN inflight :
            (variant = "sql" /\ inflight[r].op = "update_book" /\ Moves(r)
                /\ ModelDumpExcludeUnset(Val(inflight[r].p)) = {}) =>
                LET id == Val(inflight[r].id) IN
                /\ StoresUnchanged
                /\ inflight'[r].status \in {0, 200, 404}
                /\ inflight'[r].status = 404 => id \notin DOMAIN books
                /\ inflight'[r].status = 200 =>
                        /\ id \in DOMAIN books
                        /\ inflight'[r].body = <<BookResponse(id, books[id])>>
    ]_vars

\* C10 failing input reached: the relational service answered 500 to a PUT
\* of row 1 with an empty body; the row was stored when the requests arrived.
C10_EmptyUpdateFails ==
    /\ variant = "sql"
    /\ 1 \in deleted
    /\ \E r \in DoneWith("update_book", 500) :
            /\ inflight[r].id = Some(1)
            /\ ModelDumpExcludeUnset(Val(inflight[r].p)) = {}

\* the step that decides the answer of a GET of a Book id: the SELECT of the
\* relational service; for the in-memory service the turn of the loop that
\* finds the book, or the one that ends the loop
GetDecided(r) ==
    /\ Moves(r)
    /\ inflight[r].op = "get_book"
    /\ inflight[r].pc = "find"
    /\ inflight'[r].pc # "find"
\* the book that step found (none when it answers 404)
GetFound(r) ==
    IF inflight'[r].pc = "done"
    THEN inflight'[r].body
    ELSE <<Val(inflight'[r].local).book>>

\* C11 (as claimed): GET of a Book id returns exactly the fields given at
\* create as modified by the successful updates applied since, and returns 404
\* from the moment the id is deleted (or removed by delete-all) onward.
C11_GetReflectsHistory ==
    [][\A r \in DOMAIN inflight :
        GetDecided(r) =>
            LET id == Val(inflight[r].id) IN
            IF id \in DOMAIN expect /\ id \notin deleted
            THEN /\ GetFound(r) # <<>>
                 /\ GetFound(r)[1].id = id
                 /\ \A f \in BookFields : GetFound(r)[1][f] = expect[id][f]
            ELSE GetFound(r) = <<>> /\ inflight'[r].status = 404
    ]_vars

\* C11 failing input reached: the in-memory service answered 404 to the GET
\* of book 2, which is in the list and which no request removes.
C11_ListedBookNotFound ==
    /\ variant = "mem"
    /\ \E r \in DoneWith("get_book", 404) : inflight[r].id = Some(2)
    /\ 2 \in BookIds
    /\ 2 \in DOMAIN expect
    /\ \A r \in DOMAIN inflight :
            /\ inflight[r].op # "delete_all_books"
            /\ inflight[r].op = "delete_book" => inflight[r].id # Some(2)

\* str contains text as a substring
Contains(str, text) ==
    \E i \in 0..(Len(str) - Len(text)) : SubSeq(str, i + 1, i + Len(text)) = text
\* the same, letter case ignored
ContainsNoCase(str, text) == Contains(Lower(str), Lower(text))
SearchAnswer == resp.op = "search_books"
\* the stored books that satisfy every supplied predicate of the query q
Satisfying(q) ==
    {id \in DOMAIN books :
        /\ ~IsNone(q.title) => ContainsNoCase(Val(books[id].title), Val(q.title))
        /\ ~IsNone(q.author) => ContainsNoCase(Val(books[id].author), Val(q.author))
        /\ ~IsNone(q.min_rating) => Val(books[id].rating) >= Val(q.min_rating)}

\* C12 (as claimed): a search returns exactly the stored books that satisfy
\* every supplied predicate: title contains the text, author contains the text
\* (letter case ignored), rating >= min_rating; a predicate that is not
\* supplied imposes no constraint.
C12_SearchReturnsExactlyMatches ==
    SearchAnswer =>
        /\ resp.status = 200
        /\ resp.body[1] = {BookResponse(id, books[id]) : id \in Satisfying(Val(resp.id))}

\* C12 failing input reached: the search for the title text "_" returned a
\* book whose title has no "_" in it.
C12_WildcardMatchesOtherTitles ==
    /\ SearchAnswer
    /\ Val(resp.id).title = Some(<<"_">>)
    /\ \E b \in resp.body[1] : ~Contains(Val(b.title), <<"_">>)

\* the requests served step by step that have been answered
Done(r) == inflight[r].pc = "done"
TodoWriters == {"update_todo", "toggle_todo"}

\* C13 (as claimed): under every interleaving with a delete of the same id, an
\* update or toggle ends in 404 or in 200 with the record of that id, never in
\* another failure; and the record a delete has removed is not stored again.
C13_UpdateEndsNotFoundOrSuccess ==
    \A r \in DOMAIN inflight :
        /\ (inflight[r].op \in TodoWriters /\ Done(r)) =>
                \/ inflight[r].status = 404
                \/ /\ inflight[r].status = 200
                   /\ inflight[r].body[1].id = Val(inflight[r].id)
        /\ (inflight[r].op = "delete_todo" /\ inflight[r].status = 204) =>
                Val(inflight[r].id).n \notin DOMAIN todos

\* C13 failing input reached: a toggle found the todo, a delete then removed
\* it, and the toggle was answered 500.
C13_ToggleFailsAfterDelete ==
    \E r, d \in DOMAIN inflight :
        /\ inflight[r].op = "toggle_todo" /\ inflight[r].status = 500
        /\ inflight[d].op = "delete_todo" /\ inflight[d].status = 204

\* C14 (as claimed): when N toggles of one stored todo have all been answered
\* with success, the stored complete flag is the original one negated N times.
C14_NoToggleLost ==
    (/\ \A r \in DOMAIN inflight :
            inflight[r].op = "toggle_todo" /\ inflight[r].status = 200)
        => LET N == Cardinality(DOMAIN inflight)
               original == resp.body[1].complete
           IN  todos[1].complete = IF N % 2 = 0 THEN original ELSE ~original

\* C14 failing input reached: two toggles both read the flag before either
\* wrote, both were answered 200, and the flag is the negated one.
C14_TwoTogglesOneNegation ==
    /\ Cardinality(DOMAIN inflight) = 2
    /\ \A r \in DOMAIN inflight :
            inflight[r].op = "toggle_todo" /\ inflight[r].status = 200
    /\ todos[1].complete = ~resp.body[1].complete

StatsDone(r) == inflight[r].op = "get_todo_stats" /\ Done(r)

\* C15 (as claimed): every stats response has 0 <= completed <= total and
\* pending >= 0, also when other requests run between the two counts.
C15_StatsCountsConsistent ==
    \A r \in DOMAIN inflight :
        StatsDone(r) =>
            LET b == inflight[r].body[1] IN
            /\ 0 <= b.completed
            /\ b.completed <= b.total
            /\ b.pending >= 0

\* C15 failing input reached: a completed todo was created between the two
\* counts and the response reports more completed todos than todos.
C15_CompletedExceedsTotal ==
    \E r \in DOMAIN inflight :
        /\ StatsDone(r)
        /\ inflight[r].body[1].completed > inflight[r].body[1].total
        /\ inflight[r].body[1].pending < 0

\* request r writes the list in this step
Writes(r, op) ==
    /\ r \in DOMAIN inflight
    /\ inflight[r].op = op
    /\ inflight[r].pc = "found"
    /\ inflight'[r].pc = "done"
    /\ BOOKS' # BOOKS

\* C16 (as claimed): in the in-memory service, under any interleaving of
\* update and delete requests at the granularity of find_book_by_id and the
\* list write, every id occurs at most once in BOOKS, an update changes only
\* the record whose id is the requested one, and an id whose DELETE was
\* answered with success is not in BOOKS afterwards.
C16_InterleavedWritesKeepList ==
    /\ [](\A j, k \in 1..Len(BOOKS) : BOOKS[j].id = BOOKS[k].id => j = k)
    /\ [](\A r \in DOMAIN inflight :
            (inflight[r].op = "delete_book" /\ inflight[r].status = 200) =>
                Val(inflight[r].id) \notin BookIds)
    /\ [][\A r \in 1..MaxRequests :
            Writes(r, "update_book") =>
                /\ Len(BOOKS') = Len(BOOKS)
                /\ \A k \in 1..Len(BOOKS) :
                        BOOKS'[k] # BOOKS[k] => BOOKS[k].id = Val(inflight[r].id)
         ]_vars

\* C16 failing input reached: a DELETE was answered with success and the book
\* of its id is still in BOOKS, while a book no DELETE asked for is gone.
C16_DeletedBookStillListed ==
    \E r \in DOMAIN inflight :
        /\ inflight[r].op = "delete_book" /\ inflight[r].status = 200
        /\ Val(inflight[r].id) \in BookIds
        /\ \E i \in issued \ BookIds :
                \A d \in DOMAIN inflight : inflight[d].id # Some(i)
====
